---- MODULE Spec2Model ----
(***************************************************************************)
(* Model of cloud_image_import.py: main() and the three image creators     *)
(* (AWSImageCreator, AzureImageCreator, GCPImageCreator).                   *)
(*                                                                         *)
(* Text values are sequences of tokens, so that concatenation (f-strings), *)
(* os.path.basename, os.path.splitext, str.strip and str.replace are       *)
(* computed the way the code computes them.  Python's None is the value    *)
(* PyNone; an f-string prints it as "None".                                *)
(***************************************************************************)
EXTENDS Integers, Sequences, FiniteSets, TLC

\* ------------------------------------------------------------------ bounds
MaxPolls == 2
MaxPrompts == 2

\* ------------------------------------------------------- text and helpers
PyNone == <<"<None>">>
Missing == <<"<missing>">>
Unbound == <<"<unbound>">>

Str(x) == IF x = PyNone THEN <<"None">> ELSE x

Truthy(x) == x # PyNone /\ x # <<>>

DirTokens == {"img/", "build/", "cloud_images_val_shared/image/"}
ExtTokens == {".raw", ".vhd", ".gz", ".tar", ".vhdfixed"}
SpaceTokens == {"\n", " "}

path_to_images == <<"cloud_images_val_shared/image/">>

Last(s) == s[Len(s)]

DirEnds(p) == {i \in 1..Len(p) : p[i] \in DirTokens}

Max(S) == CHOOSE m \in S : \A n \in S : n <= m

basename(p) ==
  IF DirEnds(p) = {} THEN p ELSE SubSeq(p, Max(DirEnds(p)) + 1, Len(p))

\* os.path.splitext: <<root, ext>>; a leading dot of the base name is no extension
splitext(p) ==
  IF Len(p) >= 2 /\ Last(p) \in ExtTokens /\ p[Len(p) - 1] \notin DirTokens
  THEN <<SubSeq(p, 1, Len(p) - 1), <<Last(p)>>>>
  ELSE <<p, <<>>>>

RECURSIVE lstrip(_)
lstrip(s) ==
  IF s # <<>> /\ Head(s) \in SpaceTokens THEN lstrip(Tail(s)) ELSE s

RECURSIVE rstrip(_)
rstrip(s) ==
  IF s # <<>> /\ Last(s) \in SpaceTokens THEN rstrip(SubSeq(s, 1, Len(s) - 1)) ELSE s

strip(s) == lstrip(rstrip(s))

FirstIn(s, S) ==
  IF \E i \in 1..Len(s) : s[i] \in S
  THEN CHOOSE i \in 1..Len(s) : s[i] \in S /\ \A j \in 1..(i - 1) : s[j] \notin S
  ELSE Len(s) + 1

\* str.split(sep) for a one-token sep
RECURSIVE split_on(_, _)
split_on(s, sep) ==
  IF FirstIn(s, {sep}) > Len(s)
  THEN <<s>>
  ELSE <<SubSeq(s, 1, FirstIn(s, {sep}) - 1)>>
         \o split_on(SubSeq(s, FirstIn(s, {sep}) + 1, Len(s)), sep)

\* str.split(): the maximal runs without whitespace
RECURSIVE split_ws(_)
split_ws(s) ==
  IF lstrip(s) = <<>>
  THEN <<>>
  ELSE <<SubSeq(lstrip(s), 1, FirstIn(lstrip(s), SpaceTokens) - 1)>>
         \o split_ws(SubSeq(lstrip(s), FirstIn(lstrip(s), SpaceTokens), Len(lstrip(s))))

\* str.replace(old, '') for a one-token old
remove(s, old) == SelectSeq(s, LAMBDA t : t # old)

\* datetime.now().strftime("%Y%m%d%H%M%S")
strftime(t) == <<ToString(t)>>

\* str.lower on the console inputs of the model
lower(c) ==
  CASE c = "Y" -> "y"
    [] c = "N" -> "n"
    [] c = "YES" -> "yes"
    [] OTHER -> c

InUseTokens == {"already in use"}

Mentions(s) == \E i \in 1..Len(s) : s[i] \in InUseTokens

\* --------------------------------------------------------------- inputs
Clouds == {"aws", "gcp", "azure"}
Paths == {PyNone, <<>>, <<"build/", "composer", ".tar">>}
Images == {PyNone, <<>>, <<"img/", "disk", ".raw">>, <<"already in use", ".vhd">>}
Boots == {PyNone, <<"uefi">>, <<"bios">>}
Buckets == {PyNone, <<"b">>}
Regions == {PyNone, <<"us-east-1">>}
ResourceGroups == {PyNone, <<"rg">>}
StorageAccounts == {PyNone, <<"sa">>}
ConsoleInputs == {"y", "Y", "n", "N", "yes", "YES", ""}

Args ==
  [cloud : Clouds, path : Paths, image : Images, boot : Boots, bucket : Buckets,
   delete : BOOLEAN, region : Regions, resource_group : ResourceGroups,
   storage_account_name : StorageAccounts]

VARIABLES
  args,                  \* argparse namespace of main()
  pc,                    \* position of the run
  now,                   \* wall clock, in seconds
  cmds,                  \* remote commands issued so far (subprocess.run calls that started)
  out,                   \* lines printed so far
  raw_file_name,         \* main(): raw_file_name / raw_name
  object_name,           \* main(): s3_object_name / blob_name / gloud_object_name
  import_response,       \* import_snapshot_and_create_ami: decoded import_response
  import_task_id,        \* import_snapshot_and_create_ami: import_task_id
  status_response_json,  \* import_snapshot_and_create_ami: last decoded status response
  statuses,              \* statuses read by the polling loop, in order
  create_ami_response,   \* import_snapshot_and_create_ami: create_ami_response;
                         \* create_image: create_image_response
  ami_id,                \* the importer's image identifier: ami_id / image_info['id'] /
                         \* full_image_path (Unbound until assigned)
  result,                \* value the importer returned to main (Unbound until it returns)
  exc,                   \* uncaught exception that ended the run, or "none"
  prompts,               \* number of rejected answers of the confirmation prompt
  delete_input,          \* last answer read by the confirmation prompt, lowered
  twin                   \* control state the last poll would have reached with Progress presence flipped

vars ==
  <<args, pc, now, cmds, out, raw_file_name, object_name, import_response, import_task_id,
    status_response_json, statuses, create_ami_response, ami_id, result, exc, prompts,
    delete_input, twin>>

Cmd(op, argv, rc) == [op |-> op, argv |-> argv, rc |-> rc]

CmdsOf(ops) == SelectSeq(cmds, LAMBDA c : c.op \in ops)

NoResponse == [returncode |-> -1, stdout |-> <<>>, stderr |-> <<>>]

NoImport == [ok |-> FALSE, ImportTaskId |-> Unbound]

NoDoc == [ok |-> FALSE, Status |-> Missing, Progress |-> Missing, SnapshotId |-> Missing]

Init ==
  /\ args \in Args
  /\ pc = "start"
  /\ now = 0
  /\ cmds = <<>>
  /\ out = <<>>
  /\ raw_file_name = Unbound
  /\ object_name = Unbound
  /\ import_response = NoImport
  /\ import_task_id = Unbound
  /\ status_response_json = NoDoc
  /\ statuses = <<>>
  /\ create_ami_response = NoResponse
  /\ ami_id = Unbound
  /\ result = Unbound
  /\ exc = "none"
  /\ prompts = 0
  /\ delete_input = ""
  /\ twin = "none"

\* an uncaught exception ends the run with a traceback
Raise(e) ==
  /\ pc' = "crashed"
  /\ exc' = e

\* ------------------------------------------------------------------ main
\* check_args without the guard on both options
check_args_no_both(path, image) ==
  IF ~Truthy(path) /\ ~Truthy(image)
  THEN "Either -p or -i option is required. Use --help for more information."
  ELSE "ok"

\* the two guards of main() on -p / -i; "ok" when the run goes on
check_args(path, image) ==
  IF ~Truthy(path) /\ ~Truthy(image)
  THEN "Either -p or -i option is required. Use --help for more information."
  ELSE IF Truthy(path) /\ Truthy(image)
  THEN "Both -p and -i options cannot be used together. Use --help for more information."
  ELSE "ok"

\* first_step with the AWS upload of a pre-unpacked image left out
first_step_no_upload(cloud, path) ==
  CASE cloud = "aws" /\ Truthy(path) -> "aws_unpack"
    [] cloud = "aws" /\ ~Truthy(path) -> "aws_import"
    [] cloud = "azure" /\ Truthy(path) -> "azure_unpack"
    [] cloud = "azure" /\ ~Truthy(path) -> "azure_upload"
    [] cloud = "gcp" /\ Truthy(path) -> "gcp_unpack"
    [] OTHER -> "gcp_upload"

\* the branch of main() taken for the provider and the kind of input
first_step(cloud, path) ==
  CASE cloud = "aws" /\ Truthy(path) -> "aws_unpack"
    [] cloud = "aws" /\ ~Truthy(path) -> "aws_upload"
    [] cloud = "azure" /\ Truthy(path) -> "azure_unpack"
    [] cloud = "azure" /\ ~Truthy(path) -> "azure_upload"
    [] cloud = "gcp" /\ Truthy(path) -> "gcp_unpack"
    [] OTHER -> "gcp_upload"

main_check ==
  /\ pc = "start"
  /\ IF check_args(args.path, args.image) # "ok"
     THEN /\ out' = Append(out, <<check_args(args.path, args.image)>>)
          /\ pc' = "done"
     ELSE /\ out' = out
          /\ pc' = first_step(args.cloud, args.path)
  /\ raw_file_name' = IF check_args(args.path, args.image) = "ok" /\ ~Truthy(args.path)
                      THEN args.image ELSE raw_file_name
  /\ UNCHANGED <<args, import_response, create_ami_response,
                 now, cmds, object_name, import_task_id, status_response_json,
                 statuses, ami_id, result, exc, prompts, delete_input, twin>>

\* ------------------------------------------------------- AWSImageCreator
AWSUnpackOutcomes == {"found", "error", "nofile"}

aws_unpack ==
  /\ pc = "aws_unpack"
  /\ \E o \in AWSUnpackOutcomes :
       /\ raw_file_name' = IF o = "found" THEN path_to_images \o <<"disk", ".raw">> ELSE PyNone
       /\ out' = IF o = "error" THEN Append(out, <<"Unpacking error:">>) ELSE out
  /\ pc' = "aws_upload"
  /\ UNCHANGED <<args, import_response, create_ami_response,
                 now, cmds, object_name, import_task_id, status_response_json,
                 statuses, ami_id, result, exc, prompts, delete_input, twin>>

s3_object_name_of(local_file_path, t) ==
  splitext(basename(local_file_path))[1] \o <<"_">> \o strftime(t) \o <<".raw">>

s3_url(s3_bucket_name, s3_object_name) ==
  <<"s3://">> \o Str(s3_bucket_name) \o <<"/">> \o Str(s3_object_name)

upload_to_s3 ==
  /\ pc = "aws_upload"
  /\ IF raw_file_name = PyNone \/ args.region = PyNone
     THEN /\ Raise("TypeError")
          /\ UNCHANGED <<cmds, out, object_name>>
     ELSE /\ \E rc \in {0, 1} :
               cmds' = Append(cmds,
                         Cmd("s3 cp",
                             <<raw_file_name,
                               s3_url(args.bucket, s3_object_name_of(raw_file_name, now)),
                               args.region>>, rc))
          /\ object_name' = s3_object_name_of(raw_file_name, now)
          /\ out' = Append(out, <<"Uploaded as: ">> \o s3_object_name_of(raw_file_name, now))
          /\ pc' = "aws_import"
          /\ exc' = exc
  /\ UNCHANGED <<args, import_response, create_ami_response,
                 now, raw_file_name, import_task_id, status_response_json,
                 statuses, ami_id, result, prompts, delete_input, twin>>

ImportSnapshotResponses ==
  { [ok |-> FALSE, ImportTaskId |-> PyNone],
    [ok |-> TRUE, ImportTaskId |-> PyNone],
    [ok |-> TRUE, ImportTaskId |-> <<"import-snap-1">>] }

\* get_import_task_id formatting a missing ImportTaskId into text
get_import_task_id_str(r) == Str(r.ImportTaskId)

\* import_task_json.get('ImportTaskId'): None when the key is missing
get_import_task_id(r) == r.ImportTaskId

import_snapshot ==
  /\ pc = "aws_import"
  /\ \E r \in ImportSnapshotResponses :
       /\ import_response' = r
       /\ cmds' = Append(cmds,
                     Cmd("ec2 import-snapshot",
                         <<Str(args.bucket), object_name, args.region>>,
                         IF r.ok THEN 0 ELSE 1))
       /\ IF r.ok
          THEN /\ import_task_id' = get_import_task_id(r)
               /\ pc' = "aws_describe"
               /\ exc' = exc
          ELSE /\ Raise("JSONDecodeError")
               /\ import_task_id' = import_task_id
  /\ UNCHANGED <<args, create_ami_response,
                 now, out, raw_file_name, object_name, status_response_json,
                 statuses, ami_id, result, prompts, delete_input, twin>>

Active(progress) ==
  [ok |-> TRUE, Status |-> <<"active">>, Progress |-> progress, SnapshotId |-> Missing]

DescribeResponses ==
  { NoDoc,
    [ok |-> TRUE, Status |-> Missing, Progress |-> Missing, SnapshotId |-> Missing],
    Active(<<"42">>),
    Active(Missing),
    [ok |-> TRUE, Status |-> <<"deleting">>, Progress |-> <<"42">>, SnapshotId |-> Missing],
    [ok |-> TRUE, Status |-> <<"deleting">>, Progress |-> Missing, SnapshotId |-> Missing],
    [ok |-> TRUE, Status |-> <<"completed">>, Progress |-> Missing, SnapshotId |-> <<"snap-1">>],
    [ok |-> TRUE, Status |-> <<"completed">>, Progress |-> Missing, SnapshotId |-> Missing],
    [ok |-> TRUE, Status |-> <<"error">>, Progress |-> Missing, SnapshotId |-> Missing] }

\* the try/except around the read of Progress: what is printed
progress_line(progress) ==
  IF progress # Missing THEN <<"Current progress: ">> \o progress ELSE <<"No more progress">>

\* after_progress without the try/except: a missing Progress raises KeyError
after_progress_uncaught(progress) == IF progress = Missing THEN "crashed" ELSE "aws_sleep"

\* the try/except around the read of Progress: where the loop goes next
after_progress(progress) == "aws_sleep"

\* after_status waiting on 'active' only and leaving the loop on any other status
after_status_active_only(status, progress) ==
  CASE status = <<"error">> -> "done"
    [] status = <<"active">> -> after_progress(progress)
    [] OTHER -> "aws_register"

\* after_status without the elif on 'error': an error is waited on like any other status
after_status_error_polled(status, progress) ==
  CASE status = <<"completed">> -> "aws_register"
    [] OTHER -> after_progress(progress)

\* after_status with a break instead of the return on 'error'
after_status_error_break(status, progress) ==
  CASE status = <<"completed">> -> "aws_register"
    [] status = <<"error">> -> "aws_cleanup"
    [] OTHER -> after_progress(progress)

\* the if/elif/else on the status inside the polling loop
after_status(status, progress) ==
  CASE status = <<"completed">> -> "aws_register"
    [] status = <<"error">> -> "done"
    [] OTHER -> after_progress(progress)

Flip(progress) == IF progress = Missing THEN <<"42">> ELSE Missing

main_print_aws(r) == <<"Resulting AMI ID: ">> \o Str(r)

\* one iteration of the polling loop, up to the sleep, the provider answering
\* with one of Docs
describe_with(Docs) ==
  /\ pc = "aws_describe"
  /\ IF import_task_id = PyNone
     THEN /\ Raise("TypeError")
          /\ UNCHANGED <<cmds, out, status_response_json, statuses, result, twin>>
     ELSE \E d \in Docs :
       /\ cmds' = Append(cmds,
                     Cmd("ec2 describe-import-snapshot-tasks",
                         <<import_task_id, args.region>>, IF d.ok THEN 0 ELSE 1))
       /\ IF ~d.ok \/ d.Status = Missing
          THEN /\ Raise(IF d.ok THEN "KeyError" ELSE "JSONDecodeError")
               /\ UNCHANGED <<out, status_response_json, statuses, result, twin>>
          ELSE /\ status_response_json' = d
               /\ statuses' = Append(statuses, d.Status)
               /\ pc' = after_status(d.Status, d.Progress)
               /\ twin' = after_status(d.Status, Flip(d.Progress))
               /\ exc' = IF after_status(d.Status, d.Progress) = "crashed"
                         THEN "KeyError" ELSE exc
               /\ out' = CASE d.Status = <<"completed">> -> out
                            [] d.Status = <<"error">> ->
                                 out \o << <<"Error: Import task failed. Exiting.">>,
                                           main_print_aws(PyNone) >>
                            [] OTHER ->
                                 out \o << <<"Import task status: ">> \o d.Status
                                             \o <<". Waiting...">>,
                                           progress_line(d.Progress) >>
               /\ result' = IF d.Status = <<"error">> THEN PyNone ELSE result
  /\ UNCHANGED <<args, import_response, create_ami_response,
                 now, raw_file_name, object_name, import_task_id, ami_id,
                 prompts, delete_input>>

describe_import_snapshot_tasks == describe_with(DescribeResponses)

\* time.sleep(10) at the end of an iteration of the polling loop
aws_sleep ==
  /\ pc = "aws_sleep"
  /\ Len(statuses) < MaxPolls
  /\ now' = now + 10
  /\ pc' = "aws_describe"
  /\ UNCHANGED <<args, import_response, create_ami_response,
                 cmds, out, raw_file_name, object_name, import_task_id,
                 status_response_json, statuses, ami_id, result, exc, prompts,
                 delete_input, twin>>

RegisterResponses ==
  { [returncode |-> 0, stdout |-> <<"ami-1", "\n">>, stderr |-> <<>>],
    [returncode |-> 254, stdout |-> <<"\n">>,
     stderr |-> <<"InvalidBlockDeviceMapping: snapshot is ", "already in use", " by ami-0">>],
    [returncode |-> 254, stdout |-> <<>>, stderr |-> <<"InvalidParameterValue">>] }

register_argv(s3_object_name, snapshot_id, region, boot_mode) ==
  <<s3_object_name, snapshot_id, region>>
    \o (IF Truthy(boot_mode) THEN <<boot_mode>> ELSE <<>>)

\* 'already in use' in str(create_ami_response): the repr holds args, stdout and stderr
already_in_use(argv, r) ==
  \/ \E i \in 1..Len(argv) : Mentions(argv[i])
  \/ Mentions(r.stdout)
  \/ Mentions(r.stderr)

\* after_register with a return in the 'already in use' branch
after_register_return(in_use) == IF in_use THEN "aws_return" ELSE "aws_cleanup"

\* after_register calling register-image again when the snapshot is in use
after_register_retry(in_use) == IF in_use THEN "aws_register" ELSE "aws_cleanup"

\* where import_snapshot_and_create_ami goes after the if/else on 'already in use'
after_register(in_use) == "aws_cleanup"

register_image ==
  /\ pc = "aws_register"
  /\ IF status_response_json.SnapshotId = Missing
     THEN /\ Raise("KeyError")
          /\ UNCHANGED <<cmds, out, ami_id, create_ami_response>>
     ELSE \E r \in RegisterResponses :
       LET argv == register_argv(object_name, status_response_json.SnapshotId,
                                 args.region, args.boot)
       IN /\ cmds' = Append(cmds, Cmd("ec2 register-image", argv, r.returncode))
          /\ create_ami_response' = r
          /\ IF already_in_use(argv, r)
             THEN /\ out' = out \o << <<"This snapshot is already in use:">>,
                                       <<"CompletedProcess">> \o r.stdout \o r.stderr >>
                  /\ ami_id' = ami_id
             ELSE /\ out' = Append(out, <<"AMI ID: ">> \o strip(r.stdout))
                  /\ ami_id' = strip(r.stdout)
          /\ pc' = after_register(already_in_use(argv, r))
          /\ exc' = exc
  /\ UNCHANGED <<args, import_response, now, raw_file_name, object_name, import_task_id,
                 status_response_json, statuses, result, prompts, delete_input, twin>>

\* def delete_s3_object(self, s3_object_name, s3_bucket_name, region)
delete_s3_object(s3_object_name, s3_bucket_name, region) ==
  <<s3_url(s3_bucket_name, s3_object_name), region>>

\* the positional arguments import_snapshot_and_create_ami passes to
\* delete_s3_object / prompt_delete_s3_object
cleanup_call_args(s3_object_name, s3_bucket_name, region) ==
  <<s3_bucket_name, s3_object_name, region>>

\* prompt_call_args passing the parameters in the order of the callee's signature
prompt_call_args_in_order(s3_object_name, s3_bucket_name, region) ==
  <<s3_object_name, s3_bucket_name, region>>

\* the positional arguments prompt_delete_s3_object passes to delete_s3_object
prompt_call_args(s3_object_name, s3_bucket_name, region) ==
  <<s3_bucket_name, s3_object_name, region>>

aws_cleanup ==
  /\ pc = "aws_cleanup"
  /\ IF args.delete
     THEN LET a == cleanup_call_args(object_name, args.bucket, args.region)
          IN /\ \E rc \in {0, 1} :
                  cmds' = Append(cmds, Cmd("s3 rm", delete_s3_object(a[1], a[2], a[3]), rc))
             /\ pc' = "aws_return"
     ELSE /\ cmds' = cmds
          /\ pc' = "aws_prompt"
  /\ UNCHANGED <<args, import_response, create_ami_response,
                 now, out, raw_file_name, object_name, import_task_id,
                 status_response_json, statuses, ami_id, result, exc, prompts,
                 delete_input, twin>>

\* the if/elif/else on the lowered answer in prompt_delete_s3_object
aws_prompt_branch(answer) ==
  CASE answer = "y" -> "delete"
    [] answer = "n" -> "keep"
    [] OTHER -> "again"

InvalidInputLine == <<"Invalid input. Please enter 'y' for yes or 'n' for no.">>

prompt_delete_s3_object ==
  /\ pc = "aws_prompt"
  /\ LET a == cleanup_call_args(object_name, args.bucket, args.region)
         s3_object_name == a[1]
         s3_bucket_name == a[2]
         region == a[3]
         b == prompt_call_args(s3_object_name, s3_bucket_name, region)
     IN \E c \in ConsoleInputs, rc \in {0, 1} :
          LET branch == aws_prompt_branch(lower(c))
              question == <<"Do you want to delete the S3 object '">> \o Str(s3_object_name)
                            \o <<"' after import as an AMI? (y/n): ">>
          IN /\ branch = "again" => prompts < MaxPrompts
             /\ branch # "delete" => rc = 0
             /\ delete_input' = lower(c)
             /\ cmds' = IF branch = "delete"
                        THEN Append(cmds, Cmd("s3 rm", delete_s3_object(b[1], b[2], b[3]), rc))
                        ELSE cmds
             /\ out' = out \o << question,
                                  CASE branch = "delete" ->
                                         <<"S3 object '">> \o Str(s3_object_name) \o <<"' deleted.">>
                                    [] branch = "keep" ->
                                         <<"S3 object '">> \o Str(s3_object_name) \o <<"' not deleted.">>
                                    [] OTHER -> InvalidInputLine >>
             /\ prompts' = IF branch = "again" THEN prompts + 1 ELSE prompts
             /\ pc' = IF branch = "again" THEN pc ELSE "aws_return"
  /\ UNCHANGED <<args, import_response, create_ami_response,
                 now, raw_file_name, object_name, import_task_id,
                 status_response_json, statuses, ami_id, result, exc, twin>>

\* return ami_id, then main() prints the result
aws_return ==
  /\ pc = "aws_return"
  /\ IF ami_id = Unbound
     THEN /\ Raise("UnboundLocalError")
          /\ UNCHANGED <<out, result>>
     ELSE /\ result' = ami_id
          /\ out' = Append(out, main_print_aws(ami_id))
          /\ pc' = "done"
          /\ exc' = exc
  /\ UNCHANGED <<args, import_response, create_ami_response,
                 now, cmds, raw_file_name, object_name, import_task_id,
                 status_response_json, statuses, ami_id, prompts, delete_input, twin>>

\* ----------------------------------------------------- AzureImageCreator
AzureUnpackOutcomes == {"found", "error", "nofile"}

azure_unpack ==
  /\ pc = "azure_unpack"
  /\ \E o \in AzureUnpackOutcomes :
       /\ raw_file_name' = IF o = "found" THEN path_to_images \o <<"disk", ".vhd">> ELSE PyNone
       /\ out' = IF o = "error" THEN Append(out, <<"Unpacking error:">>) ELSE out
  /\ pc' = "azure_upload"
  /\ UNCHANGED <<args, import_response, create_ami_response,
                 now, cmds, object_name, import_task_id, status_response_json,
                 statuses, ami_id, result, exc, prompts, delete_input, twin>>

blob_name_of(local_file_path, t) ==
  splitext(basename(local_file_path))[1] \o <<"_">> \o strftime(t)
    \o splitext(basename(local_file_path))[2]

azure_upload ==
  /\ pc = "azure_upload"
  /\ IF raw_file_name = PyNone \/ args.storage_account_name = PyNone \/ args.bucket = PyNone
     THEN /\ Raise("TypeError")
          /\ UNCHANGED <<cmds, out, object_name>>
     ELSE /\ \E rc \in {0, 1} :
               cmds' = Append(cmds,
                         Cmd("storage blob upload",
                             <<args.storage_account_name, raw_file_name, args.bucket,
                               blob_name_of(raw_file_name, now)>>, rc))
          /\ object_name' = blob_name_of(raw_file_name, now)
          /\ out' = Append(out, <<"Uploaded as: ">> \o blob_name_of(raw_file_name, now))
          /\ pc' = "azure_create"
          /\ exc' = exc
  /\ UNCHANGED <<args, import_response, create_ami_response,
                 now, raw_file_name, import_task_id, status_response_json,
                 statuses, ami_id, result, prompts, delete_input, twin>>

AzureCreateResponses ==
  { [returncode |-> 0, ok |-> TRUE, id |-> <<"/subscriptions/s/images/i">>],
    [returncode |-> 0, ok |-> TRUE, id |-> Missing],
    [returncode |-> 0, ok |-> FALSE, id |-> Missing],
    [returncode |-> 1, ok |-> FALSE, id |-> Missing],
    [returncode |-> 1, ok |-> TRUE, id |-> <<"/subscriptions/s/images/i">>] }

main_print_azure(r) == <<"Resulting blob ID: ">> \o Str(r)

\* azure_after_create without the check of the return code
azure_after_create_unchecked(returncode) == "azure_cleanup"

\* the check of the return code of az image create
azure_after_create(returncode) == IF returncode # 0 THEN "done" ELSE "azure_cleanup"

create_image_from_blob ==
  /\ pc = "azure_create"
  /\ IF args.resource_group = PyNone \/ args.region = PyNone
     THEN /\ Raise("TypeError")
          /\ UNCHANGED <<cmds, out, ami_id, result>>
     ELSE \E r \in AzureCreateResponses :
       /\ cmds' = Append(cmds,
                     Cmd("image create",
                         <<args.resource_group,
                           object_name \o <<"-">> \o strftime(now),
                           <<"https://">> \o args.storage_account_name
                             \o <<".blob.core.windows.net/">> \o args.bucket
                             \o <<"/">> \o object_name,
                           args.region>>, r.returncode))
       /\ IF azure_after_create(r.returncode) = "done"
          THEN /\ out' = out \o << <<"Error creating the image:">>, main_print_azure(PyNone) >>
               /\ result' = PyNone
               /\ pc' = "done"
               /\ UNCHANGED <<ami_id, exc>>
          ELSE IF ~r.ok \/ r.id = Missing
          THEN /\ Raise(IF r.ok THEN "KeyError" ELSE "JSONDecodeError")
               /\ out' = IF r.ok THEN Append(out, <<"Resulting blob ID:">>) ELSE out
               /\ UNCHANGED <<ami_id, result>>
          ELSE /\ out' = out \o << <<"Resulting blob ID:">>, r.id >>
               /\ ami_id' = r.id
               /\ pc' = azure_after_create(r.returncode)
               /\ UNCHANGED <<result, exc>>
  /\ UNCHANGED <<args, import_response, create_ami_response,
                 now, raw_file_name, object_name, import_task_id,
                 status_response_json, statuses, prompts, delete_input, twin>>

\* def delete(self, blob_name, container_name, storage_account_name)
azure_delete(blob_name, container_name, storage_account_name) ==
  <<storage_account_name, container_name, blob_name>>

azure_cleanup ==
  /\ pc = "azure_cleanup"
  /\ IF args.delete
     THEN /\ \E rc \in {0, 1} :
               cmds' = Append(cmds,
                         Cmd("storage blob delete",
                             azure_delete(object_name, args.bucket, args.storage_account_name),
                             rc))
          /\ pc' = "azure_return"
     ELSE /\ cmds' = cmds
          /\ pc' = "azure_prompt"
  /\ UNCHANGED <<args, import_response, create_ami_response,
                 now, out, raw_file_name, object_name, import_task_id,
                 status_response_json, statuses, ami_id, result, exc, prompts,
                 delete_input, twin>>

\* the if/elif/else on the lowered answer in AzureImageCreator.prompt_delete
azure_prompt_branch(answer) ==
  CASE answer = "y" -> "delete"
    [] answer = "n" -> "keep"
    [] OTHER -> "again"

azure_prompt_delete ==
  /\ pc = "azure_prompt"
  /\ \E c \in ConsoleInputs, rc \in {0, 1} :
       LET branch == azure_prompt_branch(lower(c))
           question == <<"Do you want to delete the S3 object '">> \o object_name
                         \o <<"' after import as an AMI? (y/n): ">>
       IN /\ branch = "again" => prompts < MaxPrompts
          /\ branch # "delete" => rc = 0
          /\ delete_input' = lower(c)
          /\ cmds' = IF branch = "delete"
                     THEN Append(cmds,
                            Cmd("storage blob delete",
                                azure_delete(object_name, args.bucket,
                                             args.storage_account_name), rc))
                     ELSE cmds
          /\ out' = out \o << question,
                               CASE branch = "delete" ->
                                      <<"Bucket object '">> \o object_name \o <<"' deleted.">>
                                 [] branch = "keep" ->
                                      <<"Bucket object '">> \o object_name \o <<"' not deleted.">>
                                 [] OTHER -> InvalidInputLine >>
          /\ prompts' = IF branch = "again" THEN prompts + 1 ELSE prompts
          /\ pc' = IF branch = "again" THEN pc ELSE "azure_return"
  /\ UNCHANGED <<args, import_response, create_ami_response,
                 now, raw_file_name, object_name, import_task_id,
                 status_response_json, statuses, ami_id, result, exc, twin>>

\* return image_info['id'], then main() prints the result
azure_return ==
  /\ pc = "azure_return"
  /\ result' = ami_id
  /\ out' = Append(out, main_print_azure(ami_id))
  /\ pc' = "done"
  /\ UNCHANGED <<args, import_response, create_ami_response,
                 now, cmds, raw_file_name, object_name, import_task_id,
                 status_response_json, statuses, ami_id, exc, prompts, delete_input, twin>>

\* ------------------------------------------------------- GCPImageCreator
GCPUnpackOutcomes == {"found", "nomember", "error"}

gcp_unpack ==
  /\ pc = "gcp_unpack"
  /\ \E o \in GCPUnpackOutcomes :
       IF o = "error"
       THEN /\ Raise("TarError")
            /\ UNCHANGED <<raw_file_name, out>>
       ELSE /\ raw_file_name' = IF o = "found"
                                 THEN path_to_images \o <<"x", "-image.tar", ".gz">>
                                 ELSE <<>>
            /\ out' = Append(out, <<"image_name:">> \o raw_file_name')
            /\ pc' = "gcp_upload"
            /\ exc' = exc
  /\ UNCHANGED <<args, import_response, create_ami_response,
                 now, cmds, object_name, import_task_id, status_response_json,
                 statuses, ami_id, result, prompts, delete_input, twin>>

gs_url(gcp_bucket_name, name) == <<"gs://">> \o Str(gcp_bucket_name) \o <<"/">> \o name

upload_to_bucket ==
  /\ pc = "gcp_upload"
  /\ \E rc \in {0, 1} :
       cmds' = Append(cmds,
                 Cmd("gsutil cp", <<raw_file_name, <<"gs://">> \o Str(args.bucket)>>, rc))
  /\ object_name' = raw_file_name
  /\ out' = Append(out, <<"Uploaded as: ">> \o raw_file_name)
  /\ pc' = "gcp_create"
  /\ UNCHANGED <<args, import_response, create_ami_response,
                 now, raw_file_name, import_task_id, status_response_json,
                 statuses, ami_id, result, exc, prompts, delete_input, twin>>

GCPHeaders == {<<"NAME", " ", "PROJECT", " ", "STATUS">>, <<>>}
GCPNames == {<<"img-x">>, <<"img", "-y">>}
GCPProjects == {<<"proj-y">>, <<"p2">>}

\* the two-line table gcloud prints for a created image
gcp_stdout(header, name, project) ==
  header \o <<"\n">> \o name \o <<" ">> \o project \o <<" ", "READY", "\n">>

GCPCreateResponses ==
  { [returncode |-> 0, stdout |-> gcp_stdout(h, n, p), stderr |-> <<>>] :
      h \in GCPHeaders, n \in GCPNames, p \in GCPProjects }
  \cup
  { [returncode |-> 0, stdout |-> <<"NAME", "\n", "img-x", "\n">>, stderr |-> <<>>],
    [returncode |-> 0, stdout |-> <<"Created">>, stderr |-> <<>>],
    [returncode |-> 1, stdout |-> <<>>, stderr |-> <<"ERROR">>],
    [returncode |-> 1, stdout |-> gcp_stdout(<<>>, <<"img-x">>, <<"proj-y">>),
     stderr |-> <<"ERROR">>] }

gcp_image_name(gcloud_object_name) ==
  <<"image-">> \o remove(splitext(basename(gcloud_object_name))[1], "-image.tar")

gcp_create_argv(gcloud_object_name, gcp_bucket_name, boot_mode) ==
  <<gcp_image_name(gcloud_object_name),
    gs_url(gcp_bucket_name, basename(gcloud_object_name))>>
    \o (IF boot_mode = <<"uefi">>
        THEN << <<"--guest-os-features=UEFI_COMPATIBLE,VIRTIO_SCSI_MULTIQUEUE,SEV_CAPABLE">> >>
        ELSE <<>>)

\* gcp_values reading the first line of the response instead of the second
gcp_values_first_line(stdout) ==
  IF Len(split_ws(split_on(stdout, "\n")[1])) < 2 THEN Missing
  ELSE split_ws(split_on(stdout, "\n")[1])

\* values = create_image_stdout[1].split(), or Missing where an index is out of range
gcp_values(stdout) ==
  IF Len(split_on(stdout, "\n")) < 2 THEN Missing
  ELSE IF Len(split_ws(split_on(stdout, "\n")[2])) < 2 THEN Missing
  ELSE split_ws(split_on(stdout, "\n")[2])

full_image_path(values) ==
  <<"projects/">> \o values[2] \o <<"/global/images/">> \o values[1]

main_print_gcp(r) == <<"Resulting image name: ">> \o Str(r)

\* gcp_after_create without the check of the return code
gcp_after_create_unchecked(returncode) == "gcp_cleanup"

\* the check of the return code of gcloud compute images create
gcp_after_create(returncode) == IF returncode # 0 THEN "done" ELSE "gcp_cleanup"

gcp_create_image ==
  /\ pc = "gcp_create"
  /\ \E r \in GCPCreateResponses :
       /\ cmds' = Append(cmds,
                     Cmd("compute images create",
                         gcp_create_argv(object_name, args.bucket, args.boot),
                         r.returncode))
       /\ create_ami_response' = r
       /\ IF gcp_after_create(r.returncode) = "done"
          THEN /\ out' = out \o << <<"Error creating the image:">>, main_print_gcp(PyNone) >>
               /\ result' = PyNone
               /\ pc' = "done"
               /\ UNCHANGED <<ami_id, exc>>
          ELSE IF gcp_values(r.stdout) = Missing
          THEN /\ Raise("IndexError")
               /\ UNCHANGED <<out, ami_id, result>>
          ELSE /\ out' = Append(out, <<"Image created: ">> \o gcp_values(r.stdout)[1])
               /\ ami_id' = full_image_path(gcp_values(r.stdout))
               /\ pc' = gcp_after_create(r.returncode)
               /\ UNCHANGED <<result, exc>>
  /\ UNCHANGED <<args, import_response, now, raw_file_name, object_name, import_task_id,
                 status_response_json, statuses, prompts, delete_input, twin>>

\* def delete(self, gcloud_object_name, gcp_bucket_name)
gcp_delete(gcloud_object_name, gcp_bucket_name) ==
  <<gs_url(gcp_bucket_name, gcloud_object_name)>>

gcp_cleanup ==
  /\ pc = "gcp_cleanup"
  /\ IF args.delete
     THEN /\ \E rc \in {0, 1} :
               cmds' = Append(cmds,
                         Cmd("storage rm", gcp_delete(basename(object_name), args.bucket), rc))
          /\ pc' = "gcp_return"
     ELSE /\ cmds' = cmds
          /\ pc' = "gcp_prompt"
  /\ UNCHANGED <<args, import_response, create_ami_response,
                 now, out, raw_file_name, object_name, import_task_id,
                 status_response_json, statuses, ami_id, result, exc, prompts,
                 delete_input, twin>>

\* gcp_prompt_branch taking every answer that starts with a y for a yes
gcp_prompt_branch_prefix(answer) ==
  CASE answer \in {"y", "yes"} -> "delete"
    [] answer = "n" -> "keep"
    [] OTHER -> "again"

\* the if/elif/else on the lowered answer in GCPImageCreator.prompt_delete
gcp_prompt_branch(answer) ==
  CASE answer = "y" -> "delete"
    [] answer = "n" -> "keep"
    [] OTHER -> "again"

gcp_prompt_delete ==
  /\ pc = "gcp_prompt"
  /\ \E c \in ConsoleInputs, rc \in {0, 1} :
       LET branch == gcp_prompt_branch(lower(c))
           name == basename(object_name)
           question == <<"Do you want to delete the gcloud object '">> \o name
                         \o <<"' after import? (y/n): ">>
       IN /\ branch = "again" => prompts < MaxPrompts
          /\ branch # "delete" => rc = 0
          /\ delete_input' = lower(c)
          /\ cmds' = IF branch = "delete"
                     THEN Append(cmds, Cmd("storage rm", gcp_delete(name, args.bucket), rc))
                     ELSE cmds
          /\ out' = out \o << question,
                               CASE branch = "delete" ->
                                      <<"Google cloud object '">> \o name \o <<"' deleted.">>
                                 [] branch = "keep" ->
                                      <<"Google cloud object '">> \o name \o <<"' not deleted.">>
                                 [] OTHER -> InvalidInputLine >>
          /\ prompts' = IF branch = "again" THEN prompts + 1 ELSE prompts
          /\ pc' = IF branch = "again" THEN pc ELSE "gcp_return"
  /\ UNCHANGED <<args, import_response, create_ami_response,
                 now, raw_file_name, object_name, import_task_id,
                 status_response_json, statuses, ami_id, result, exc, twin>>

\* return full_image_path, then main() prints the result
gcp_return ==
  /\ pc = "gcp_return"
  /\ result' = ami_id
  /\ out' = Append(out, main_print_gcp(ami_id))
  /\ pc' = "done"
  /\ UNCHANGED <<args, import_response, create_ami_response,
                 now, cmds, raw_file_name, object_name, import_task_id,
                 status_response_json, statuses, ami_id, exc, prompts, delete_input, twin>>

Next ==
  \/ main_check
  \/ aws_unpack
  \/ upload_to_s3
  \/ import_snapshot
  \/ describe_import_snapshot_tasks
  \/ aws_sleep
  \/ register_image
  \/ aws_cleanup
  \/ prompt_delete_s3_object
  \/ aws_return
  \/ azure_unpack
  \/ azure_upload
  \/ create_image_from_blob
  \/ azure_cleanup
  \/ azure_prompt_delete
  \/ azure_return
  \/ gcp_unpack
  \/ upload_to_bucket
  \/ gcp_create_image
  \/ gcp_cleanup
  \/ gcp_prompt_delete
  \/ gcp_return

Spec == Init /\ [][Next]_vars

\* ------------------------------------------------------------ properties
UploadOps == {"s3 cp", "storage blob upload", "gsutil cp"}
DeleteOps == {"s3 rm", "storage blob delete", "storage rm"}
CreateOps == {"image create", "compute images create"}
DescribeOp == "ec2 describe-import-snapshot-tasks"
RegisterOp == "ec2 register-image"

\* the object an upload command creates: bucket/container and object name
Created(c) ==
  CASE c.op = "s3 cp" -> c.argv[2]
    [] c.op = "storage blob upload" -> <<c.argv[1], c.argv[3], c.argv[4]>>
    [] OTHER -> c.argv[2] \o <<"/">> \o basename(c.argv[1])

\* the object a delete command addresses
Deleted(c) ==
  IF c.op = "storage blob delete" THEN c.argv ELSE c.argv[1]

PromptHeads ==
  {"Do you want to delete the S3 object '", "Do you want to delete the gcloud object '"}

PromptShown == \E i \in 1..Len(out) : out[i][1] \in PromptHeads

Printed(line) == \E i \in 1..Len(out) : out[i] = line

Terminal == {<<"completed">>, <<"error">>}

\* an option counts as given when its value is true for the tests of main():
\* an absent option and an empty string both count as not given
Given(x) == Truthy(x)

BothOrNeither == Given(args.path) <=> Given(args.image)

\* C1: with both -p and -i given, or neither, the run ends with one of the two
\* messages of main() and no backend operation (unpack, upload, import, poll,
\* register, delete) is ever invoked
C1_InputValidation ==
  BothOrNeither =>
    /\ pc \in {"start", "done"}
    /\ cmds = <<>>
    /\ raw_file_name = Unbound
    /\ result = Unbound
    /\ pc = "done" =>
         /\ Len(out) = 1
         /\ out[1][1] \in
              {"Either -p or -i option is required. Use --help for more information.",
               "Both -p and -i options cannot be used together. Use --help for more information."}

C1_Witness ==
  /\ pc = "done"
  /\ Given(args.path) /\ Given(args.image)
  /\ out = << <<"Both -p and -i options cannot be used together. Use --help for more information.">> >>

\* the importer returned a non-empty image identifier to main()
HasId(r) == r \notin {Unbound, PyNone, <<>>}

\* a run with a pre-unpacked image whose import returned a non-empty identifier
SucceededFromImage == pc = "done" /\ ~Given(args.path) /\ HasId(result)

\* C2: after a successful run from a pre-unpacked image with auto-delete set,
\* exactly one delete command was issued and it addresses the bucket/container
\* and object name that the upload command created
C2_AutoDeleteRemovesUploadedObject ==
  (SucceededFromImage /\ args.delete) =>
    /\ Len(CmdsOf(UploadOps)) = 1
    /\ Len(CmdsOf(DeleteOps)) = 1
    /\ Deleted(CmdsOf(DeleteOps)[1]) = Created(CmdsOf(UploadOps)[1])

NumDescribe == Len(CmdsOf({DescribeOp}))

TerminalSeen == \E i \in 1..Len(statuses) : statuses[i] \in Terminal

\* C3: the statuses read are Active* followed by at most one of completed/error,
\* and once completed or error was read no further status query is issued
C3_NoPollAfterTerminal ==
  [][ /\ TerminalSeen => NumDescribe' = NumDescribe
      /\ \A i \in 1..(Len(statuses') - 1) : statuses'[i] \notin Terminal ]_vars

C3_Witness ==
  /\ pc = "done"
  /\ Len(statuses) >= 2
  /\ Last(statuses) = <<"completed">>
  /\ NumDescribe = Len(statuses)

ErrorSeen == \E i \in 1..Len(statuses) : statuses[i] = <<"error">>

\* C4: when a status query returns error (first poll or later), the import
\* returns no image identifier, register-image is never called, and no delete
\* command and no delete prompt occurs
C4_ErrorAbortsWithoutCleanup ==
  ErrorSeen =>
    /\ pc = "done"
    /\ result = PyNone
    /\ Printed(<<"Error: Import task failed. Exiting.">>)
    /\ Last(out) = main_print_aws(PyNone)
    /\ CmdsOf({RegisterOp}) = <<>>
    /\ CmdsOf(DeleteOps) = <<>>
    /\ ~PromptShown

C4_Witness ==
  /\ ErrorSeen
  /\ Len(statuses) >= 2
  /\ pc = "done"

\* the register-image response says that the snapshot is already in use
InUseReported ==
  Mentions(create_ami_response.stdout) \/ Mentions(create_ami_response.stderr)

\* C5: when register-image reports that the snapshot is already in use, no
\* exception ends the run: import_snapshot_and_create_ami returns to main()
C5_AlreadyInUseReturnsNormally ==
  InUseReported => (pc # "crashed" /\ exc = "none")

\* C6: when register-image reports that the snapshot is already in use, the run
\* goes on to the cleanup step and does not end before it: with auto-delete the
\* delete command is issued, otherwise the delete prompt is shown
C6_AlreadyInUseReachesCleanup ==
  InUseReported =>
    /\ pc \in {"aws_cleanup", "aws_prompt", "aws_return", "crashed"}
    /\ pc = "aws_prompt" => ~args.delete
    /\ pc \in {"aws_return", "crashed"} =>
         /\ args.delete => Len(CmdsOf({"s3 rm"})) = 1
         /\ ~args.delete => PromptShown

C6_Witness ==
  /\ InUseReported
  /\ pc = "aws_return"
  /\ ~args.delete
  /\ PromptShown

PromptPcs == {"aws_prompt", "azure_prompt", "gcp_prompt"}

\* the arguments of the delete command that an answer of y would issue now
PromptDeleteArgv ==
  CASE pc = "aws_prompt" ->
         delete_s3_object(
           prompt_call_args(cleanup_call_args(object_name, args.bucket, args.region)[1],
                            cleanup_call_args(object_name, args.bucket, args.region)[2],
                            args.region)[1],
           prompt_call_args(cleanup_call_args(object_name, args.bucket, args.region)[1],
                            cleanup_call_args(object_name, args.bucket, args.region)[2],
                            args.region)[2],
           args.region)
    [] pc = "azure_prompt" ->
         azure_delete(object_name, args.bucket, args.storage_account_name)
    [] pc = "gcp_prompt" -> gcp_delete(basename(object_name), args.bucket)
    [] OTHER -> <<>>

\* C7: an answer that is neither y nor n in any case is rejected and the prompt
\* is shown again: the step issues no command, and the delete command that a
\* later y would issue stays the same
C7_InvalidAnswerReprompts ==
  [][ (pc \in PromptPcs /\ delete_input' \notin {"y", "n"}) =>
        /\ pc' = pc
        /\ cmds' = cmds
        /\ Last(out') = InvalidInputLine
        /\ PromptDeleteArgv' = PromptDeleteArgv ]_vars

C7_Witness ==
  /\ prompts >= 2
  /\ delete_input = "y"
  /\ pc = "gcp_return"
  /\ Len(CmdsOf(DeleteOps)) = 1

\* the import command itself succeeded
ImportOk == \E i \in 1..Len(cmds) : cmds[i].op \in CreateOps \cup {RegisterOp} /\ cmds[i].rc = 0

\* the confirmation prompt has been answered
Answered == pc \in {"aws_return", "azure_return", "gcp_return", "done", "crashed"}

\* C8: without auto-delete and after a successful import, an answer of y issues
\* exactly one delete command, addressing the bucket/container and object name
\* the upload created, and an answer of n issues no delete command
C8_PromptAnswerDecidesDelete ==
  (~args.delete /\ ImportOk /\ Answered) =>
    /\ delete_input = "y" =>
         /\ Len(CmdsOf(DeleteOps)) = 1
         /\ Len(CmdsOf(UploadOps)) = 1
         /\ Deleted(CmdsOf(DeleteOps)[1]) = Created(CmdsOf(UploadOps)[1])
    /\ delete_input = "n" => CmdsOf(DeleteOps) = <<>>

C8_Witness ==
  /\ args.cloud = "aws"
  /\ ~args.delete
  /\ pc = "done"
  /\ HasId(result)
  /\ delete_input = "y"
  /\ Len(CmdsOf(DeleteOps)) = 1

\* C9: a poll ends in the same control state whether or not the response
\* carries Progress, so the outcome of the run depends on the statuses only,
\* and a poll with a non-terminal status goes on to the next wait and query
C9_ProgressDoesNotMatter ==
  [][ (pc = "aws_describe" /\ statuses' # statuses) =>
        /\ twin' = pc'
        /\ Last(statuses') \notin Terminal => (pc' = "aws_sleep" /\ exc' = "none") ]_vars

C9_Witness ==
  /\ Printed(<<"No more progress">>)
  /\ Last(statuses) = <<"completed">>
  /\ pc = "done"
  /\ HasId(result)

CreateFailed == \E i \in 1..Len(cmds) : cmds[i].op \in CreateOps /\ cmds[i].rc # 0

\* C10: for Azure and GCP the create-image command is issued at most once in a
\* run, and when it exits non-zero the failure is reported, no image identifier
\* is returned, and no further command (retry, status poll) follows
C10_CreateFailureIsFinal ==
  /\ Len(CmdsOf(CreateOps)) <= 1
  /\ CreateFailed =>
       /\ pc = "done"
       /\ result = PyNone
       /\ Printed(<<"Error creating the image:">>)
       /\ Last(cmds).op \in CreateOps
       /\ CmdsOf({DescribeOp}) = <<>>

C10_Witness ==
  /\ args.cloud = "azure"
  /\ CreateFailed
  /\ pc = "done"

UploadFailed == \E i \in 1..Len(cmds) : cmds[i].op \in UploadOps /\ cmds[i].rc # 0

\* C11: when the upload command fails the job aborts: the upload is the last
\* remote command of the run (no import command and no later command follows)
C11_UploadFailureAborts ==
  UploadFailed => Last(cmds).op \in UploadOps

FailureLines ==
  { <<"Either -p or -i option is required. Use --help for more information.">>,
    <<"Both -p and -i options cannot be used together. Use --help for more information.">>,
    <<"Error: Import task failed. Exiting.">>,
    <<"Error creating the image:">> }

FailureReported == \E i \in 1..Len(out) : out[i] \in FailureLines

\* C12: a run that returns from main() ends either with a non-empty image
\* identifier as its result, or with a failure message and no image identifier
\* (a run ended by an uncaught exception ends with its traceback and no result)
C12_IdentifierOrFailure ==
  pc = "done" => (HasId(result) \/ (FailureReported /\ ~HasId(result)))

AzureExtraMissing ==
  /\ args.cloud = "azure"
  /\ args.resource_group = PyNone \/ args.storage_account_name = PyNone

\* C13: for Azure without a resource group or without a storage account name,
\* the run makes no remote call (upload, image create, delete)
C13_AzureExtrasRequired ==
  AzureExtraMissing => cmds = <<>>

\* C14: for GCP, a successful create-image call with a two-line response gives
\* the identifier projects/<P>/global/images/<N>, N and P being the first and
\* second token of the second line, whatever the first line is
C14_GCPResourcePath ==
  \A h \in GCPHeaders, n \in GCPNames, p \in GCPProjects :
    ( /\ args.cloud = "gcp"
      /\ create_ami_response.returncode = 0
      /\ create_ami_response.stdout = gcp_stdout(h, n, p) ) =>
        /\ pc \in {"gcp_cleanup", "gcp_prompt", "gcp_return", "done"}
        /\ ami_id = <<"projects/">> \o p \o <<"/global/images/">> \o n
        /\ pc = "done" => result = <<"projects/">> \o p \o <<"/global/images/">> \o n

C14_Witness ==
  /\ args.cloud = "gcp"
  /\ pc = "done"
  /\ create_ami_response.stdout = gcp_stdout(<<"NAME", " ", "PROJECT", " ", "STATUS">>, <<"img", "-y">>, <<"p2">>)
  /\ result = <<"projects/", "p2", "/global/images/", "img", "-y">>

ImportSnapshotOp == "ec2 import-snapshot"
ImportPhaseOps == {ImportSnapshotOp, DescribeOp, RegisterOp} \cup CreateOps
UnpackPcs == {"aws_unpack", "azure_unpack", "gcp_unpack"}

\* C15: the phases run in the order Unpack, Upload, Import, Cleanup: nothing
\* remote precedes the unpacking, the upload is the first remote command, an
\* import command follows the upload, register-image follows a status query
\* that returned completed, and a delete command or a delete prompt follows
\* the last command of the import step
C15_PhaseOrder ==
  /\ pc \in UnpackPcs => cmds = <<>>
  /\ (Given(args.path) /\ cmds # <<>>) => raw_file_name # Unbound
  /\ \A i \in 1..Len(cmds) :
       /\ cmds[i].op \in UploadOps => i = 1
       /\ cmds[i].op \in ImportPhaseOps => cmds[1].op \in UploadOps
       /\ cmds[i].op = RegisterOp =>
            /\ cmds[i - 1].op = DescribeOp
            /\ Last(statuses) = <<"completed">>
       /\ cmds[i].op \in DeleteOps =>
            /\ cmds[i - 1].op \in CreateOps \cup {RegisterOp}
            /\ i = Len(cmds)
  /\ (PromptShown \/ pc \in PromptPcs) =>
       \E i \in 1..Len(cmds) :
         /\ cmds[i].op \in CreateOps \cup {RegisterOp}
         /\ \A j \in (i + 1)..Len(cmds) : cmds[j].op \in DeleteOps

C15_Witness ==
  /\ args.cloud = "aws"
  /\ Given(args.path)
  /\ pc = "done"
  /\ HasId(result)
  /\ PromptShown
  /\ Len(CmdsOf(DeleteOps)) = 1

\* the import-snapshot response is malformed or carries no ImportTaskId
BadImportResponse ==
  /\ CmdsOf({ImportSnapshotOp}) # <<>>
  /\ ~import_response.ok \/ import_response.ImportTaskId = PyNone

\* C16: when the import-snapshot response is malformed or has no ImportTaskId,
\* import-snapshot is the last command of the run and is issued once: no status
\* query, register-image or delete follows, no identifier is produced, and the
\* run ends with an exception at the latest in the next step
C16_BadImportResponseIsFatal ==
  BadImportResponse =>
    /\ Len(CmdsOf({ImportSnapshotOp})) = 1
    /\ Last(cmds).op = ImportSnapshotOp
    /\ result = Unbound
    /\ ami_id = Unbound
    /\ ~PromptShown
    /\ pc \in {"aws_describe", "crashed"}
    /\ pc = "crashed" => exc \in {"JSONDecodeError", "TypeError"}
    /\ pc = "aws_describe" => import_task_id = PyNone

C16_Witness ==
  /\ BadImportResponse
  /\ import_response.ok
  /\ pc = "crashed"
  /\ exc = "TypeError"

\* unpacking the archive failed: an archive or decompression error, or no disk
\* image of the expected format among the unpacked files
UnpackFailed ==
  /\ Given(args.path) /\ ~Given(args.image)
  /\ raw_file_name \in {PyNone, <<>>} \/ exc = "TarError"

\* C17: when unpacking the archive fails, no remote command (upload, import,
\* delete) is issued in the run
C17_UnpackFailureAborts ==
  UnpackFailed => cmds = <<>>

\* base name of the local file, a timestamp, and the original extension
StampedName(local_file_path, t) ==
  splitext(basename(local_file_path))[1] \o <<"_">> \o strftime(t)
    \o splitext(basename(local_file_path))[2]

\* C18: the object name an upload produces is the base name of the local file,
\* followed by a timestamp, followed by the original extension of the file
C18_ObjectNameIsStamped ==
  object_name # Unbound =>
    \E t \in 0..now : object_name = StampedName(raw_file_name, t)

\* C19: in a run every remote command except the AWS status query is issued at
\* most once (one upload, one import-snapshot, one register-image, one image
\* create, one delete), failed or not; only the status query repeats
C19_NoRetry ==
  /\ Len(CmdsOf(UploadOps)) <= 1
  /\ Len(CmdsOf({ImportSnapshotOp})) <= 1
  /\ Len(CmdsOf({RegisterOp})) <= 1
  /\ Len(CmdsOf(CreateOps)) <= 1
  /\ Len(CmdsOf(DeleteOps)) <= 1
  /\ \A i, j \in 1..Len(cmds) : (i # j /\ cmds[i].op = cmds[j].op) => cmds[i].op = DescribeOp

C19_Witness ==
  /\ pc = "done"
  /\ HasId(result)
  /\ NumDescribe >= 2
  /\ prompts >= 1
  /\ \E i \in 1..Len(cmds) : cmds[i].op \in UploadOps /\ cmds[i].rc # 0
  /\ Len(CmdsOf(DeleteOps)) = 1

\* ------------------------------------------- the polling loop, with a provider
\* that reports completed or error (or fails to answer) at the latest on query
\* number MaxPolls
EventualDocs ==
  IF Len(statuses) + 1 >= MaxPolls
  THEN {d \in DescribeResponses : ~d.ok \/ d.Status \in Terminal \cup {Missing}}
  ELSE DescribeResponses

describe_eventually_terminal == describe_with(EventualDocs)

PollInit == Init /\ args.cloud = "aws"

PollNext ==
  \/ main_check
  \/ aws_unpack
  \/ upload_to_s3
  \/ import_snapshot
  \/ describe_eventually_terminal
  \/ aws_sleep
  \/ register_image
  \/ aws_cleanup
  \/ prompt_delete_s3_object
  \/ aws_return

\* the loop is sequential code: a started iteration makes its query, and the
\* sleep returns
PollSpec ==
  /\ PollInit
  /\ [][PollNext]_vars
  /\ WF_vars(describe_eventually_terminal)
  /\ WF_vars(aws_sleep)

PollPcs == {"aws_describe", "aws_sleep"}

\* C20: a status other than completed and error (inside the enumeration or not)
\* is followed by one wait of 10 seconds and another status query; the loop is
\* left only by a completed or error status (or an exception), so it never ends
\* on its own; and with a provider that eventually reports completed or error
\* the loop is eventually left
C20_PollingLoop ==
  /\ [][ /\ (pc = "aws_describe" /\ statuses' # statuses /\ Last(statuses') \notin Terminal) =>
             /\ pc' = "aws_sleep"
             /\ NumDescribe' = NumDescribe + 1
         /\ (pc = "aws_sleep" /\ pc' # pc) =>
             /\ pc' = "aws_describe"
             /\ now' = now + 10
             /\ cmds' = cmds
         /\ (pc \in PollPcs /\ pc' \notin PollPcs) =>
             \/ pc' = "crashed"
             \/ statuses' # statuses /\ Last(statuses') \in Terminal ]_vars
  /\ (pc = "aws_describe") ~> (pc \notin PollPcs)

C20_Witness ==
  /\ Len(statuses) >= 2
  /\ statuses[1] = <<"deleting">>
  /\ Last(statuses) = <<"completed">>
  /\ now >= 10
  /\ pc = "done"

CleanupPcs == {"azure_cleanup", "gcp_cleanup"}

\* C21: for Azure and GCP, once the create-image command has exited non-zero,
\* the run issues no delete command and shows no delete prompt, with the
\* auto-delete flag set or not: the failed create is the last remote command,
\* the clean-up step is never entered, and the uploaded object is not addressed
\* by any later command
C21_CreateFailureSkipsCleanup ==
  CreateFailed =>
    /\ args.cloud \in {"azure", "gcp"}
    /\ CmdsOf(DeleteOps) = <<>>
    /\ ~PromptShown
    /\ prompts = 0
    /\ delete_input = ""
    /\ pc \notin CleanupPcs \cup PromptPcs
    /\ Last(cmds).op \in CreateOps

C21_Witness ==
  /\ args.cloud = "gcp"
  /\ args.delete
  /\ CreateFailed
  /\ create_ami_response.stdout # <<>>
  /\ Len(CmdsOf(UploadOps)) = 1
  /\ pc = "done"

====
